---- MODULE Spec2Model ----
(***************************************************************************)
(* Model of app.py: a Flask application with four routes that start, stop  *)
(* and observe one CPU-burning background thread.  Each HTTP request runs  *)
(* on its own thread; handlers and workers share the two module globals    *)
(* cpu_load_active and cpu_thread without any lock, so every read or write *)
(* of a global is a separate atomic step.                                  *)
(***************************************************************************)
EXTENDS Integers, Sequences, FiniteSets, TLC

(* ---- bounds ---- *)
MaxRequests == 3
FIB_ITERATIONS == 2

Requests == 1..MaxRequests
None == 0

VARIABLES
    cpu_load_active,   \* app.py:17  the global flag
    cpu_thread,        \* app.py:20  the global thread handle (None or a thread id)
    pc,                \* per request: position of its handler
    kind,              \* per request: which route it was sent to
    body,              \* per request: what request.get_json(silent=True) returns
    seen,              \* per request: value of cpu_load_active read by its first test
    iterations,        \* per request: the local variable `iterations` of start
    resp,              \* per request: the response returned
    steps,             \* per request: number of handler steps executed
    wrote,             \* per request: did it write a global or start a thread
    spawned,           \* per request: the thread its cpu_thread.start() started
    thr,               \* per thread object: position, budget, loop state, and
                       \* whether it left its loop by the break of line 34
    signalled,         \* workers that were in their loop when a stop wrote False
    stopped,           \* workers that were alive when a stop wrote False
    extra              \* per worker: updates executed since it was signalled

vars == <<cpu_load_active, cpu_thread, pc, kind, body, seen, iterations, resp,
          steps, wrote, spawned, thr, signalled, stopped, extra>>

(* ---- JSON values and Python's int() ---- *)
JInt(k)   == [t |-> "int",   v |-> k, s |-> <<>>]
JFloat(k) == [t |-> "float", v |-> k, s |-> <<>>]   \* v is the value in tenths
JStr(s)   == [t |-> "str",   v |-> 0, s |-> s]
JNull     == [t |-> "null",  v |-> 0, s |-> <<>>]

Digits == <<"0", "1", "2", "3", "4", "5", "6", "7", "8", "9">>
IsDigit(c) == \E k \in 1..10 : Digits[k] = c
DigitVal(c) == (CHOOSE k \in 1..10 : Digits[k] = c) - 1

RECURSIVE ParseDigits(_)
ParseDigits(s) ==
    IF s = <<>> THEN 0
    ELSE ParseDigits(SubSeq(s, 1, Len(s) - 1)) * 10 + DigitVal(s[Len(s)])

AllDigits(s) == Len(s) > 0 /\ \A k \in 1..Len(s) : IsDigit(s[k])

\* int(str): optional sign followed by decimal digits, ValueError otherwise
IntOfStr(s) ==
    LET signed == Len(s) > 0 /\ s[1] \in {"-", "+"}
        digs   == IF signed THEN Tail(s) ELSE s
    IN  IF AllDigits(digs)
        THEN [exc |-> "none",
              val |-> IF signed /\ s[1] = "-" THEN 0 - ParseDigits(digs)
                      ELSE ParseDigits(digs)]
        ELSE [exc |-> "ValueError", val |-> 0]

\* int(float) truncates toward zero
Trunc(tenths) == IF tenths >= 0 THEN tenths \div 10 ELSE 0 - ((0 - tenths) \div 10)

\* int(x) for the JSON values a body can carry
PyInt(x) ==
    CASE x.t = "int"   -> [exc |-> "none", val |-> x.v]
      [] x.t = "float" -> [exc |-> "none", val |-> Trunc(x.v)]
      [] x.t = "str"   -> IntOfStr(x.s)
      [] OTHER         -> [exc |-> "TypeError", val |-> 0]

(* ---- request bodies ---- *)
\* 0, 1, 1.5, "abc", null
Values == { JInt(0), JInt(1), JFloat(15), JStr(<<"a", "b", "c">>), JNull }

NoBody     == [b |-> "none",  val |-> JNull]   \* get_json(silent=True) gave None
IterDict(x) == [b |-> "iter", val |-> x]       \* {"iterations": x}

Bodies == {NoBody} \cup { IterDict(x) : x \in Values }

\* `data and 'iterations' in data`
HasIterations(d) == d.b = "iter"

\* the value of cpu_load_active as a handler saw it
Read(flag) == IF flag THEN "True" ELSE "False"

(* ---- responses ---- *)
NoResp == [code |-> 0, msg |-> "", n |-> 0, status |-> "", configured |-> 0,
           alive |-> FALSE]
Reply(c, m) == [NoResp EXCEPT !.code = c, !.msg = m]

(* ---- threads ---- *)
NoThread == [wpc |-> "none", n |-> 0, i |-> 0, a |-> 0, b |-> 1, broke |-> FALSE]
Started(t) == thr[t].wpc \notin {"none", "created"}
Alive(t)   == Started(t) /\ thr[t].wpc # "done"
InLoop(t)  == thr[t].wpc \in {"check", "update"}

Init ==
    /\ cpu_load_active = FALSE
    /\ cpu_thread = None
    /\ pc = [h \in Requests |-> "idle"]
    /\ kind = [h \in Requests |-> "none"]
    /\ body = [h \in Requests |-> NoBody]
    /\ seen = [h \in Requests |-> "unread"]
    /\ iterations = [h \in Requests |-> 0]
    /\ resp = [h \in Requests |-> NoResp]
    /\ steps = [h \in Requests |-> 0]
    /\ wrote = [h \in Requests |-> FALSE]
    /\ spawned = [h \in Requests |-> None]
    /\ thr = [t \in Requests |-> NoThread]
    /\ signalled = {}
    /\ stopped = {}
    /\ extra = [t \in Requests |-> 0]


(* ---- environment: a client sends a request ---- *)
Kinds == {"health", "start", "stop", "status"}

FirstLabel(k) ==
    CASE k = "health" -> "h_health"
      [] k = "start"  -> "s_check"
      [] k = "stop"   -> "t_check"
      [] OTHER        -> "q_status"

\* Requests are numbered in the order they arrive; only a start carries a body.
Issue(h, k, d) ==
    /\ pc[h] = "idle"
    /\ \A g \in Requests : g < h => pc[g] # "idle"
    /\ (k = "start" \/ d = NoBody)
    /\ pc' = [pc EXCEPT ![h] = FirstLabel(k)]
    /\ kind' = [kind EXCEPT ![h] = k]
    /\ body' = [body EXCEPT ![h] = d]
    /\ UNCHANGED <<cpu_load_active, cpu_thread, seen, iterations, resp, steps,
                   wrote, spawned, thr, signalled, stopped, extra>>

(* ---- GET /health ---- *)
\* a health check that reports the load as unhealthy
health_check_reports_load(h) ==
    /\ pc[h] = "h_health"
    /\ resp' = [resp EXCEPT ![h] =
                   IF cpu_load_active
                   THEN [NoResp EXCEPT !.code = 503, !.status = "BUSY"]
                   ELSE [NoResp EXCEPT !.code = 200, !.status = "OK"]]
    /\ pc' = [pc EXCEPT ![h] = "done"]
    /\ steps' = [steps EXCEPT ![h] = @ + 1]
    /\ UNCHANGED <<cpu_load_active, cpu_thread, kind, body, seen, iterations,
                   wrote, spawned, thr, signalled, stopped, extra>>

health_check(h) ==
    /\ pc[h] = "h_health"
    /\ resp' = [resp EXCEPT ![h] = [NoResp EXCEPT !.code = 200, !.status = "OK"]]
    /\ pc' = [pc EXCEPT ![h] = "done"]
    /\ steps' = [steps EXCEPT ![h] = @ + 1]
    /\ UNCHANGED <<cpu_load_active, cpu_thread, kind, body, seen, iterations,
                   wrote, spawned, thr, signalled, stopped, extra>>

(* ---- POST /start_cpu_intensive ---- *)
\* Lines 72-85 as a function of the flag value read and the body: either a
\* response, or "go" with the resolved iteration count.
ResolveStartValidatesFirst(flag, d) ==
    LET c == PyInt(d.val)
    IN  IF HasIterations(d) /\ c.exc = "TypeError"
        THEN [out |-> "reply", n |-> 0, r |-> Reply(500, "Internal Server Error")]
        ELSE IF HasIterations(d) /\ c.exc = "ValueError"
        THEN [out |-> "reply", n |-> 0,
              r |-> Reply(400, "Invalid 'iterations' value. Must be an integer.")]
        ELSE IF HasIterations(d) /\ c.val <= 0
        THEN [out |-> "reply", n |-> 0,
              r |-> Reply(400, "Iterations must be a positive integer.")]
        ELSE IF flag
        THEN [out |-> "reply", n |-> 0, r |-> Reply(409, "CPU load already active.")]
        ELSE [out |-> "go", n |-> IF HasIterations(d) THEN c.val ELSE FIB_ITERATIONS,
              r |-> NoResp]

ResolveStart(flag, d) ==
    IF flag
    THEN [out |-> "reply", n |-> 0, r |-> Reply(409, "CPU load already active.")]
    ELSE IF ~HasIterations(d)
    THEN [out |-> "go", n |-> FIB_ITERATIONS, r |-> NoResp]
    ELSE LET c == PyInt(d.val)
         IN  CASE c.exc = "ValueError" ->
                    [out |-> "reply", n |-> 0,
                     r |-> Reply(400, "Invalid 'iterations' value. Must be an integer.")]
               [] c.exc = "TypeError" ->   \* not caught by `except ValueError`
                    [out |-> "reply", n |-> 0,
                     r |-> Reply(500, "Internal Server Error")]
               [] OTHER ->
                    IF c.val <= 0
                    THEN [out |-> "reply", n |-> 0,
                          r |-> Reply(400, "Iterations must be a positive integer.")]
                    ELSE [out |-> "go", n |-> c.val, r |-> NoResp]

\* lines 72-85 with line 89 moved in front of the validation
start_check_creates_first(h) ==
    /\ pc[h] = "s_check"
    /\ LET r == ResolveStart(cpu_load_active, body[h])
       IN  /\ seen' = [seen EXCEPT ![h] = Read(cpu_load_active)]
           /\ iterations' = [iterations EXCEPT ![h] = r.n]
           /\ IF r.out = "go"
              THEN /\ pc' = [pc EXCEPT ![h] = "s_create"]
                   /\ UNCHANGED resp
              ELSE /\ pc' = [pc EXCEPT ![h] = "done"]
                   /\ resp' = [resp EXCEPT ![h] = r.r]
    /\ cpu_thread' = h
    /\ thr' = [thr EXCEPT ![h] = [NoThread EXCEPT !.wpc = "created"]]
    /\ steps' = [steps EXCEPT ![h] = @ + 1]
    /\ UNCHANGED <<cpu_load_active, kind, body, wrote, spawned, signalled, stopped, extra>>

\* lines 72-85: test the flag, read and validate the body
start_check(h) ==
    /\ pc[h] = "s_check"
    /\ LET r == ResolveStart(cpu_load_active, body[h])
       IN  /\ seen' = [seen EXCEPT ![h] = Read(cpu_load_active)]
           /\ iterations' = [iterations EXCEPT ![h] = r.n]
           /\ IF r.out = "go"
              THEN /\ pc' = [pc EXCEPT ![h] = "s_create"]
                   /\ UNCHANGED resp
              ELSE /\ pc' = [pc EXCEPT ![h] = "done"]
                   /\ resp' = [resp EXCEPT ![h] = r.r]
    /\ steps' = [steps EXCEPT ![h] = @ + 1]
    /\ UNCHANGED <<cpu_load_active, cpu_thread, kind, body, wrote, spawned, thr,
                   signalled, stopped, extra>>

\* line 89: cpu_thread = threading.Thread(target=..., args=(iterations,))
start_create(h) ==
    /\ pc[h] = "s_create"
    /\ thr' = [thr EXCEPT ![h] = [NoThread EXCEPT !.wpc = "created",
                                                  !.n = iterations[h]]]
    /\ cpu_thread' = h
    /\ wrote' = [wrote EXCEPT ![h] = TRUE]
    /\ pc' = [pc EXCEPT ![h] = "s_start"]
    /\ steps' = [steps EXCEPT ![h] = @ + 1]
    /\ UNCHANGED <<cpu_load_active, kind, body, seen, iterations, resp,
                   spawned, signalled, stopped, extra>>

\* lines 90-92: cpu_thread.start() on whatever the global refers to now, then
\* the 202 response; starting a thread twice raises RuntimeError (a 500).
start_spawn(h) ==
    /\ pc[h] = "s_start"
    /\ LET t == cpu_thread
       IN  IF thr[t].wpc = "created"
           THEN /\ thr' = [thr EXCEPT ![t].wpc = "set_active"]
                /\ spawned' = [spawned EXCEPT ![h] = t]
                /\ resp' = [resp EXCEPT ![h] =
                      [Reply(202, "CPU-intensive task started with N iterations.")
                          EXCEPT !.n = iterations[h]]]
           ELSE /\ resp' = [resp EXCEPT ![h] = Reply(500, "Internal Server Error")]
                /\ UNCHANGED <<thr, spawned>>
    /\ pc' = [pc EXCEPT ![h] = "done"]
    /\ steps' = [steps EXCEPT ![h] = @ + 1]
    /\ UNCHANGED <<cpu_load_active, cpu_thread, kind, body, seen, iterations,
                   wrote, signalled, stopped, extra>>

(* ---- POST /stop_cpu_intensive ---- *)
\* line 102: the value of `not cpu_load_active`
StopSeesInactiveInverted(flag) == flag
StopSeesInactive(flag) == ~flag

\* lines 102-104
stop_check(h) ==
    /\ pc[h] = "t_check"
    /\ seen' = [seen EXCEPT ![h] = Read(cpu_load_active)]
    /\ IF StopSeesInactive(cpu_load_active)
       THEN /\ resp' = [resp EXCEPT ![h] = Reply(200, "No CPU load active.")]
            /\ pc' = [pc EXCEPT ![h] = "done"]
       ELSE /\ pc' = [pc EXCEPT ![h] = "t_write"]
            /\ UNCHANGED resp
    /\ steps' = [steps EXCEPT ![h] = @ + 1]
    /\ UNCHANGED <<cpu_load_active, cpu_thread, kind, body, iterations, wrote, spawned,
                   thr, signalled, stopped, extra>>

\* What stop waits for before it writes the flag: nothing (the join of lines
\* 109-110 is commented out).
StopWaitsJoin(h) == cpu_thread = None \/ ~Alive(cpu_thread)
StopWaits(h) == TRUE

\* lines 106-113
stop_write(h) ==
    /\ pc[h] = "t_write"
    /\ StopWaits(h)
    /\ cpu_load_active' = FALSE
    /\ signalled' = signalled \cup {t \in Requests : InLoop(t)}
    /\ stopped' = stopped \cup {t \in Requests : Alive(t)}
    /\ wrote' = [wrote EXCEPT ![h] = TRUE]
    /\ resp' = [resp EXCEPT ![h] = Reply(200, "Signal sent to stop CPU-intensive task.")]
    /\ pc' = [pc EXCEPT ![h] = "done"]
    /\ steps' = [steps EXCEPT ![h] = @ + 1]
    /\ UNCHANGED <<cpu_thread, kind, body, seen, iterations, spawned, thr, extra>>

(* ---- GET /status_cpu_load ---- *)
\* line 120 with a flag found stale (no live thread behind it) reset on the way
status_status_repairs(h) ==
    /\ pc[h] = "q_status"
    /\ seen' = [seen EXCEPT ![h] = Read(cpu_load_active)]
    /\ resp' = [resp EXCEPT ![h].status =
                   IF cpu_load_active THEN "active" ELSE "inactive"]
    /\ cpu_load_active' = (cpu_load_active /\ cpu_thread # None /\ Alive(cpu_thread))
    /\ pc' = [pc EXCEPT ![h] = "q_message"]
    /\ steps' = [steps EXCEPT ![h] = @ + 1]
    /\ UNCHANGED <<cpu_thread, kind, body, iterations, wrote, spawned,
                   thr, signalled, stopped, extra>>

\* line 120
status_status(h) ==
    /\ pc[h] = "q_status"
    /\ seen' = [seen EXCEPT ![h] = Read(cpu_load_active)]
    /\ resp' = [resp EXCEPT ![h].status =
                   IF cpu_load_active THEN "active" ELSE "inactive"]
    /\ pc' = [pc EXCEPT ![h] = "q_message"]
    /\ steps' = [steps EXCEPT ![h] = @ + 1]
    /\ UNCHANGED <<cpu_load_active, cpu_thread, kind, body, iterations, wrote, spawned,
                   thr, signalled, stopped, extra>>

\* line 121
status_message(h) ==
    /\ pc[h] = "q_message"
    /\ resp' = [resp EXCEPT ![h].msg =
                   IF cpu_load_active THEN "CPU load is currently active."
                   ELSE "No CPU load is currently active."]
    /\ pc' = [pc EXCEPT ![h] = "q_alive"]
    /\ steps' = [steps EXCEPT ![h] = @ + 1]
    /\ UNCHANGED <<cpu_load_active, cpu_thread, kind, body, seen, iterations,
                   wrote, spawned, thr, signalled, stopped, extra>>

\* lines 123-128 reporting the iteration count of the latest task
status_alive_reports_last(h) ==
    /\ pc[h] = "q_alive"
    /\ resp' = [resp EXCEPT ![h].code = 200,
                            ![h].configured = IF cpu_thread # None THEN thr[cpu_thread].n
                                              ELSE FIB_ITERATIONS,
                            ![h].alive = (cpu_thread # None /\ Alive(cpu_thread))]
    /\ pc' = [pc EXCEPT ![h] = "done"]
    /\ steps' = [steps EXCEPT ![h] = @ + 1]
    /\ UNCHANGED <<cpu_load_active, cpu_thread, kind, body, seen, iterations,
                   wrote, spawned, thr, signalled, stopped, extra>>

\* lines 123-128
status_alive(h) ==
    /\ pc[h] = "q_alive"
    /\ resp' = [resp EXCEPT ![h].code = 200,
                            ![h].configured = FIB_ITERATIONS,
                            ![h].alive = (cpu_thread # None /\ Alive(cpu_thread))]
    /\ pc' = [pc EXCEPT ![h] = "done"]
    /\ steps' = [steps EXCEPT ![h] = @ + 1]
    /\ UNCHANGED <<cpu_load_active, cpu_thread, kind, body, seen, iterations,
                   wrote, spawned, thr, signalled, stopped, extra>>

(* ---- the worker thread: start_cpu_load_thread / calculate_fibonacci ---- *)
\* line 45
thread_set_active(t) ==
    /\ thr[t].wpc = "set_active"
    /\ cpu_load_active' = TRUE
    /\ thr' = [thr EXCEPT ![t].wpc = "check"]
    /\ UNCHANGED <<cpu_thread, pc, kind, body, seen, iterations, resp, steps,
                   wrote, spawned, signalled, stopped, extra>>

\* lines 30-34 as `while cpu_load_active`, without the range
fib_check_ignores_range(t) ==
    /\ thr[t].wpc = "check"
    /\ thr' = [thr EXCEPT ![t].wpc = IF cpu_load_active THEN "update" ELSE "clear",
                          ![t].broke = ~cpu_load_active]
    /\ UNCHANGED <<cpu_load_active, cpu_thread, pc, kind, body, seen, iterations,
                   resp, steps, wrote, spawned, signalled, stopped, extra>>

\* lines 30-34: next element of range(iterations), then the flag test
fib_check(t) ==
    /\ thr[t].wpc = "check"
    /\ thr' = [thr EXCEPT ![t].wpc =
                  IF thr[t].i < thr[t].n /\ cpu_load_active THEN "update"
                  ELSE "clear",
                          ![t].broke = thr[t].i < thr[t].n /\ ~cpu_load_active]
    /\ UNCHANGED <<cpu_load_active, cpu_thread, pc, kind, body, seen, iterations,
                   resp, steps, wrote, spawned, signalled, stopped, extra>>

\* line 35
fib_update(t) ==
    /\ thr[t].wpc = "update"
    /\ thr' = [thr EXCEPT ![t].a = thr[t].b,
                          ![t].b = thr[t].a + thr[t].b,
                          ![t].i = @ + 1,
                          ![t].wpc = "check"]
    /\ extra' = [extra EXCEPT ![t] = IF t \in signalled THEN @ + 1 ELSE @]
    /\ UNCHANGED <<cpu_load_active, cpu_thread, pc, kind, body, seen, iterations,
                   resp, steps, wrote, spawned, signalled, stopped>>

\* line 48: the value the worker leaves in the flag when it returns
FlagAtExitKept(flag) == flag
FlagAtExit(flag) == FALSE

thread_clear(t) ==
    /\ thr[t].wpc = "clear"
    /\ cpu_load_active' = FlagAtExit(cpu_load_active)
    /\ thr' = [thr EXCEPT ![t].wpc = "done"]
    /\ UNCHANGED <<cpu_thread, pc, kind, body, seen, iterations, resp, steps,
                   wrote, spawned, signalled, stopped, extra>>

(* ---- specifications ---- *)
HandlerStep(h) ==
    \/ health_check(h)
    \/ start_check(h) \/ start_create(h) \/ start_spawn(h)
    \/ stop_check(h) \/ stop_write(h)
    \/ status_status(h) \/ status_message(h) \/ status_alive(h)

WorkerStep(t) ==
    \/ thread_set_active(t) \/ fib_check(t) \/ fib_update(t) \/ thread_clear(t)

Next ==
    \/ \E h \in Requests, k \in Kinds, d \in Bodies : Issue(h, k, d)
    \/ \E h \in Requests : health_check(h)
    \/ \E h \in Requests : start_check(h)
    \/ \E h \in Requests : start_create(h)
    \/ \E h \in Requests : start_spawn(h)
    \/ \E h \in Requests : stop_check(h)
    \/ \E h \in Requests : stop_write(h)
    \/ \E h \in Requests : status_status(h)
    \/ \E h \in Requests : status_message(h)
    \/ \E h \in Requests : status_alive(h)
    \/ \E t \in Requests : thread_set_active(t)
    \/ \E t \in Requests : fib_check(t)
    \/ \E t \in Requests : fib_update(t)
    \/ \E t \in Requests : thread_clear(t)

Spec == Init /\ [][Next]_vars

\* Every thread the interpreter runs is scheduled again and again; clients are
\* under no obligation to send requests.
FairSpec ==
    /\ Init /\ [][Next]_vars
    /\ \A h \in Requests : WF_vars(HandlerStep(h))
    /\ \A t \in Requests : WF_vars(WorkerStep(t))


(* ---- vocabulary of the properties ---- *)
IsStart(h) == kind[h] = "start"
Done(h) == pc[h] = "done"
Accepted(h) == IsStart(h) /\ Done(h) /\ resp[h].code = 202
NoStopRequest == \A h \in Requests : kind[h] # "stop"
TaskFinished(h) == spawned[h] # None /\ thr[spawned[h]].wpc = "done"
StopAccepted(h) ==
    /\ kind[h] = "stop" /\ Done(h)
    /\ resp[h] = Reply(200, "Signal sent to stop CPU-intensive task.")
ConflictReply == Reply(409, "CPU load already active.")

\* C1: while no stop request occurs, of the start requests with valid or
\* absent iterations at most one holds a 202 whose task has not finished, and
\* every other one is answered 409 and spawns no worker.
C1_StartMutualExclusion ==
    NoStopRequest =>
        /\ \A g, h \in Requests :
              (g # h /\ Accepted(g) /\ Accepted(h))
                  => (TaskFinished(g) \/ TaskFinished(h))
        /\ \A g, h \in Requests :
              (/\ g # h /\ Accepted(g) /\ ~TaskFinished(g)
               /\ IsStart(h) /\ Done(h)
               /\ ResolveStart(FALSE, body[h]).out = "go")
                  => (Accepted(h) \/ (resp[h] = ConflictReply /\ spawned[h] = None))

\* C2: at most one background worker thread is alive in every reachable state.
C2_AtMostOneWorkerAlive == Cardinality({t \in Requests : Alive(t)}) <= 1

\* C3: a worker that was in its loop when a stop request wrote
\* cpu_load_active = False executes at most one further update step.
C3_StopObservedAtNextBoundary == \A t \in Requests : extra[t] <= 1

\* C4: once a stop request has been accepted, every fair execution (in which
\* start requests eventually cease) reaches a point from which
\* cpu_load_active is False for ever, so every later status poll reports
\* inactive.
C4_CancellationLiveness ==
    (\E h \in Requests : StopAccepted(h)) ~> [](~cpu_load_active)

\* a stop was accepted while a worker was in its loop
C4_Witness ==
    \E h \in Requests : StopAccepted(h) /\ signalled # {}

\* C5: a start request that has returned 202 has already set cpu_load_active:
\* with no stop request and before its worker has exhausted its iterations
\* the flag, which is what a status request reports, is True.
C5_ActiveBeforeAccepted ==
    \A h \in Requests :
        (Accepted(h) /\ NoStopRequest /\ thr[spawned[h]].i < thr[spawned[h]].n)
            => (thr[spawned[h]].wpc # "set_active" /\ cpu_load_active)

\* what the validation claim calls an integer: a JSON integer, a float without
\* fraction, or a string that is an integer literal
IsInteger(x) ==
    \/ x.t = "int"
    \/ x.t = "float" /\ x.v % 10 = 0
    \/ x.t = "str" /\ IntOfStr(x.s).exc = "none"

\* C6: a start request that supplies a non-integer 'iterations' is answered
\* 400 "Invalid 'iterations' value. Must be an integer.", one that supplies a
\* non-positive integer 400 "Iterations must be a positive integer.", whether
\* a task is active or not.
C6_Validation ==
    \A h \in Requests :
        (IsStart(h) /\ Done(h) /\ HasIterations(body[h])) =>
            /\ ~IsInteger(body[h].val) =>
                  resp[h] = Reply(400, "Invalid 'iterations' value. Must be an integer.")
            /\ (IsInteger(body[h].val) /\ PyInt(body[h].val).val <= 0) =>
                  resp[h] = Reply(400, "Iterations must be a positive integer.")

\* C7: a start request that read cpu_load_active as True has answered 409
\* "CPU load already active." whatever its body, and no thread is ever
\* created or started for it.
C7_Conflict ==
    \A h \in Requests :
        (IsStart(h) /\ seen[h] = "True") =>
            /\ Done(h) /\ resp[h] = ConflictReply
            /\ thr[h].wpc = "none" /\ spawned[h] = None /\ ~wrote[h]

\* a start with an invalid body got 409 and the task that was running has
\* since finished
C7_Witness ==
    \E h, g \in Requests :
        /\ IsStart(h) /\ seen[h] = "True" /\ body[h] = IterDict(JInt(0))
        /\ Accepted(g) /\ TaskFinished(g)
        /\ \A t \in Requests : ~Alive(t)

Rejected(h) == IsStart(h) /\ Done(h) /\ resp[h].code \in {400, 409}

C9_StopIdempotentWhenInactive ==
    [][\A h \in Requests :
          (pc[h] = "t_check" /\ pc'[h] # "t_check" /\ ~cpu_load_active) =>
              /\ pc'[h] = "done"
              /\ resp'[h] = Reply(200, "No CPU load active.")
              /\ ~wrote'[h]
              /\ UNCHANGED <<cpu_load_active, cpu_thread, thr>>]_vars

\* two stop requests were answered "No CPU load active." and nothing runs
C9_Witness ==
    \E g, h \in Requests :
        /\ g # h
        /\ kind[g] = "stop" /\ Done(g) /\ resp[g] = Reply(200, "No CPU load active.")
        /\ kind[h] = "stop" /\ Done(h) /\ resp[h] = Reply(200, "No CPU load active.")
        /\ ~cpu_load_active

InFlight(h) == pc[h] \notin {"idle", "done"}

\* C10: a handler that has not yet responded can always take its next step,
\* whatever the workers are doing, and it responds after at most three steps
\* of its own.
C10_HandlersNeverBlock ==
    \A h \in Requests :
        /\ InFlight(h) => ENABLED HandlerStep(h)
        /\ steps[h] <= 3
        /\ Done(h) => steps[h] >= 1

\* a stop, a start and a status all responded while the started worker has
\* not run a single step
C10_Witness ==
    \E f, g, h \in Requests :
        /\ Accepted(f) /\ thr[spawned[f]].wpc = "set_active"
        /\ kind[g] = "stop" /\ Done(g)
        /\ kind[h] = "status" /\ Done(h) /\ steps[h] = 3

IsStatus(h) == kind[h] = "status"
StatusDone(h) == IsStatus(h) /\ Done(h)

\* C11: no step of a status request changes cpu_load_active, cpu_thread or
\* any worker, and the 'status' field is "active" exactly when the value of
\* cpu_load_active read at line 120 was True.
C11_StatusReadOnly ==
    /\ [](\A h \in Requests :
             (IsStatus(h) /\ seen[h] # "unread") =>
                 /\ resp[h].status = "active" <=> seen[h] = "True"
                 /\ resp[h].status \in {"active", "inactive"}
                 /\ ~wrote[h] /\ spawned[h] = None)
    /\ [][\A h \in Requests :
             (IsStatus(h) /\ pc'[h] # pc[h]) =>
                 UNCHANGED <<cpu_load_active, cpu_thread, thr>>]_vars

\* a status request read True at line 120 and, a worker having finished in
\* between, False at line 121, with the flag found True though no live thread
\* is behind the handle
C11_Witness ==
    \E h \in Requests :
        /\ StatusDone(h) /\ resp[h].status = "active"
        /\ resp[h].msg = "No CPU load is currently active."
        /\ \E g \in Requests : StatusDone(g) /\ resp[g].status = "active" /\ ~resp[g].alive

\* C12: the 'fib_iterations_configured' field of every status response is
\* the configured default FIB_ITERATIONS, whatever 'iterations' earlier start
\* requests supplied.
C12_StatusReportsConfiguredDefault ==
    \A h \in Requests : StatusDone(h) => resp[h].configured = FIB_ITERATIONS

\* a status response given while the handle refers to a task started with an
\* override of 1 iteration, a start with iterations 0 having been rejected
C12_Witness ==
    \E h, g \in Requests :
        /\ StatusDone(h) /\ resp[h].configured = FIB_ITERATIONS
        /\ cpu_thread # None /\ Started(cpu_thread)
        /\ thr[cpu_thread].n = 1 /\ thr[cpu_thread].n # FIB_ITERATIONS
        /\ h > cpu_thread
        /\ Rejected(g) /\ body[g] = IterDict(JInt(0))

IsHealth(h) == kind[h] = "health"

\* C13: a health request can always be answered, its answer is 200 with
\* status "OK" in every state, and answering changes neither cpu_load_active
\* nor cpu_thread nor any worker.
C13_HealthUnconditional ==
    /\ [](\A h \in Requests :
             /\ pc[h] = "h_health" => ENABLED health_check(h)
             /\ (IsHealth(h) /\ Done(h)) =>
                    (resp[h] = [NoResp EXCEPT !.code = 200, !.status = "OK"]
                     /\ ~wrote[h] /\ spawned[h] = None))
    /\ [][\A h \in Requests :
             (IsHealth(h) /\ pc'[h] # pc[h]) =>
                 /\ resp'[h] = [NoResp EXCEPT !.code = 200, !.status = "OK"]
                 /\ UNCHANGED <<cpu_load_active, cpu_thread, thr>>]_vars

\* health answered on a request that arrived after an accepted stop, while
\* the signalled worker has not yet observed the cleared flag
C13_Witness ==
    \E h, g \in Requests :
        /\ IsHealth(h) /\ Done(h) /\ resp[h].status = "OK"
        /\ StopAccepted(g) /\ g < h
        /\ ~cpu_load_active
        /\ \E t \in signalled : thr[t].wpc = "update"

\* C14: a worker leaves its loop by the break of line 34, before it has
\* performed all its iterations, only if a stop request wrote
\* cpu_load_active = False while that worker was alive.
C14_EarlyExitOnlyByStop ==
    \A t \in Requests : thr[t].broke => t \in stopped

\* C15: under fair scheduling every started worker finishes, it never
\* performs more than its requested number of updates, and the step in which
\* it finishes leaves cpu_load_active False, whether it exhausted its
\* iterations or broke out early.
C15_WorkerTerminatesAndClears ==
    /\ \A t \in Requests : Started(t) ~> (thr[t].wpc = "done")
    /\ [](\A t \in Requests : thr[t].i <= thr[t].n)
    /\ [][\A t \in Requests :
             (thr[t].wpc # "done" /\ thr'[t].wpc = "done") =>
                 (thr[t].wpc = "clear" /\ ~cpu_load_active')]_vars

\* one worker finished after all its iterations, another after breaking out
C15_Witness ==
    \E t, u \in Requests :
        /\ thr[t].wpc = "done" /\ ~thr[t].broke /\ thr[t].i = thr[t].n /\ thr[t].n = 2
        /\ thr[u].wpc = "done" /\ thr[u].broke /\ thr[u].i < thr[u].n
        /\ ~cpu_load_active

\* the iteration count the resolution claim expects for a body: the supplied
\* value when it is a positive JSON integer, the configured default when no
\* 'iterations' is supplied, and nothing in particular otherwise (0)
ExpectedIterations(d) ==
    IF ~HasIterations(d) THEN FIB_ITERATIONS
    ELSE IF d.val.t = "int" /\ d.val.v > 0 THEN d.val.v
    ELSE 0

\* C16: the worker spawned by a start request accepted with 202 has as its
\* budget the supplied positive integer, or FIB_ITERATIONS when none was
\* supplied; the 202 message reports that budget; and a worker that never
\* read the flag as False performs exactly that many updates.
C16_ResolvedIterationCount ==
    \A h \in Requests :
        Accepted(h) =>
            LET t == spawned[h]
            IN  /\ ExpectedIterations(body[h]) # 0 => thr[t].n = ExpectedIterations(body[h])
                /\ resp[h].n = thr[t].n
                /\ (thr[t].wpc \in {"clear", "done"} /\ ~thr[t].broke) => thr[t].i = thr[t].n

\* C17: whenever cpu_load_active is True, cpu_thread is set and refers to a
\* worker that is alive, and a status response with status "active" has
\* current_thread_alive true.
C17_FlagImpliesLiveHandle ==
    /\ cpu_load_active => (cpu_thread # None /\ Alive(cpu_thread))
    /\ \A h \in Requests :
          (StatusDone(h) /\ resp[h].status = "active") => resp[h].alive

NoWorkerAlive == \A t \in Requests : ~Alive(t)

\* C18: in every state in which no worker thread is alive, cpu_load_active
\* is False.
C18_QuiescentInactive == NoWorkerAlive => ~cpu_load_active

\* two workers have run and finished, one of them cut short, after a stop
C18_Witness ==
    /\ NoWorkerAlive /\ ~cpu_load_active
    /\ Cardinality({t \in Requests : thr[t].wpc = "done"}) = 2
    /\ \E t \in Requests : thr[t].wpc = "done" /\ thr[t].broke
    /\ \E h \in Requests : StopAccepted(h)

====
